---- MODULE Spec2Model ----
(***************************************************************************)
(* A model of data_manager/viper.py: the VIPeR dataset constructor, its    *)
(* download step, its pre-flight directory check, the creation of the ten  *)
(* random train/test splits, their persistence in splits.json and the      *)
(* selection of one split by split_id.                                     *)
(*                                                                         *)
(* The file system is the shared state; every constructing process has a   *)
(* program counter that walks through __init__.  Python values keep the    *)
(* distinction between a tuple and a list, so that writing a split to JSON *)
(* and reading it back is not the identity.                                *)
(***************************************************************************)
EXTENDS Integers, Sequences, FiniteSets, TLC

\* ------------------------------------------------------------------ bounds
\* Largest number of *.bmp images in one camera directory.
MaxPids == 10
\* States of the random source a construction may start from: 0..MaxSeed.
MaxSeed == 3
\* How far outside [-len, len) a requested split_id may lie.
MaxOver == 1
\* Constructions one process performs in a row.
MaxRuns == 2
\* Largest number of images per camera when two processes race.
MaxRacePids == 2
\* range(10) of _prepare_split.
NumSplits == 10

Procs == {1, 2}
SplitIds == (0 - NumSplits - MaxOver) .. (NumSplits + MaxOver - 1)
Keys == {"train", "query", "gallery", "num_train_pids", "num_query_pids", "num_gallery_pids"}

VARIABLES
    exists_dataset_dir,  \* osp.exists(self.dataset_dir)
    exists_cam_a,        \* osp.exists(self.cam_a_path)
    exists_cam_b,        \* osp.exists(self.cam_b_path)
    n_cam_a,             \* number of *.bmp files in cam_a
    n_cam_b,             \* number of *.bmp files in cam_b
    split_file,          \* splits.json: [exists, doc]
    pc,                  \* per process: position in __init__
    split_id,            \* per process: the split_id argument
    rng,                 \* per process: state of np.random
    splits,              \* per process: the local variable splits
    error,               \* per process: the exception that left __init__
    obj,                 \* per process: the fields set on self
    downloaded,          \* per process: _download_data fetched the archive
    runs                 \* per process: constructions still to come

vars == <<exists_dataset_dir, exists_cam_a, exists_cam_b, n_cam_a, n_cam_b,
          split_file, pc, split_id, rng, splits, error, obj, downloaded, runs>>

fsvars == <<exists_dataset_dir, exists_cam_a, exists_cam_b, n_cam_a, n_cam_b>>

\* ------------------------------------------------------------ Python values
NoError == [kind |-> "none", detail |-> "none"]
Raise(kind, detail) == [kind |-> kind, detail |-> detail]

NoObj == [set |-> FALSE, train |-> <<>>, query |-> <<>>, gallery |-> <<>>,
          num_train_pids |-> 0, num_query_pids |-> 0, num_gallery_pids |-> 0]

NoFile == [exists |-> FALSE, doc |-> <<>>]

\* A Python tuple and a Python (JSON) list with the same items are different values.
PyTuple(items) == [tuple |-> TRUE, items |-> items]
PyList(items) == [tuple |-> FALSE, items |-> items]

\* A conversion that keeps at most three items.
tuple_of_three(item) ==
    PyTuple(IF Len(item.items) > 3 THEN SubSeq(item.items, 1, 3) ELSE item.items)

\* tuple(item)
tuple(item) == PyTuple(item.items)

\* sorted(glob.glob(osp.join(cam_path, '*.bmp'))): the n image paths of a camera, in order.
sorted_glob(cam, n) == [i \in 1..n |-> <<cam, i - 1>>]

RemoveAt(s, i) == SubSeq(s, 1, i - 1) \o SubSeq(s, i + 1, Len(s))

\* np.arange(num_pids)
arange(n) == [i \in 1..n |-> i - 1]

\* The next state of the random source after one shuffle.
rk_next(r) == (61 * r + 7) % 720

\* np.random.shuffle(order) in state r: the permutation of `avail` that r selects.
RECURSIVE shuffle(_, _)
shuffle(avail, r) ==
    IF avail = <<>> THEN <<>>
    ELSE LET m == Len(avail)
             i == (r % m) + 1
         IN  <<avail[i]>> \o shuffle(RemoveAt(avail, i), r \div m)

\* A slice that starts one element early: order[num_train_pids-1:].
test_idxs_one_early(order, num_train_pids) ==
    SubSeq(order, IF num_train_pids > 0 THEN num_train_pids ELSE 1, Len(order))

\* order[:num_train_pids]
train_idxs_of(order, num_train_pids) == SubSeq(order, 1, num_train_pids)
\* order[num_train_pids:]
test_idxs_of(order, num_train_pids) == SubSeq(order, num_train_pids + 1, Len(order))

Range(s) == {s[i] : i \in DOMAIN s}

\* The loop with the raw index, not the running count, as the label.
RECURSIVE enumerate_raw_label(_, _, _, _)
enumerate_raw_label(idxs, pid, cam_a_imgs, cam_b_imgs) ==
    IF pid >= Len(idxs) THEN <<>>
    ELSE LET idx == idxs[pid + 1]
         IN  <<PyTuple(<<cam_a_imgs[idx + 1], idx, 0>>),
               PyTuple(<<cam_b_imgs[idx + 1], idx, 1>>)>>
             \o enumerate_raw_label(idxs, pid + 1, cam_a_imgs, cam_b_imgs)

\* The loop "for pid, idx in enumerate(idxs)": two records per index, camera 0 then 1.
RECURSIVE enumerate_records(_, _, _, _)
enumerate_records(idxs, pid, cam_a_imgs, cam_b_imgs) ==
    IF pid >= Len(idxs) THEN <<>>
    ELSE LET idx == idxs[pid + 1]
         IN  <<PyTuple(<<cam_a_imgs[idx + 1], pid, 0>>),
               PyTuple(<<cam_b_imgs[idx + 1], pid, 1>>)>>
             \o enumerate_records(idxs, pid + 1, cam_a_imgs, cam_b_imgs)

\* The loop body with the gallery taken from the whole permutation and the
\* train count rounded up.
make_split_all_gallery(order, num_pids, cam_a_imgs, cam_b_imgs) ==
    LET num_train_pids == num_pids \div 2
        train == enumerate_records(train_idxs_of(order, num_train_pids), 0, cam_a_imgs, cam_b_imgs)
        test == enumerate_records(test_idxs_of(order, num_train_pids), 0, cam_a_imgs, cam_b_imgs)
    IN  [train |-> train, query |-> test,
         gallery |-> enumerate_records(order, 0, cam_a_imgs, cam_b_imgs),
         num_train_pids |-> num_train_pids,
         num_query_pids |-> num_pids - num_train_pids,
         num_gallery_pids |-> num_pids - num_train_pids]

\* The loop body with the train count stored one too high.
make_split_count_up(order, num_pids, cam_a_imgs, cam_b_imgs) ==
    LET num_train_pids == num_pids \div 2
        train == enumerate_records(train_idxs_of(order, num_train_pids), 0, cam_a_imgs, cam_b_imgs)
        test == enumerate_records(test_idxs_of(order, num_train_pids), 0, cam_a_imgs, cam_b_imgs)
    IN  [train |-> train, query |-> test, gallery |-> test,
         num_train_pids |-> (num_pids + 1) \div 2,
         num_query_pids |-> num_pids - num_train_pids,
         num_gallery_pids |-> num_pids - num_train_pids]

\* One pass of the loop body: the split built from the permutation `order`.
make_split(order, num_pids, cam_a_imgs, cam_b_imgs) ==
    LET num_train_pids == num_pids \div 2
        train == enumerate_records(train_idxs_of(order, num_train_pids), 0, cam_a_imgs, cam_b_imgs)
        test == enumerate_records(test_idxs_of(order, num_train_pids), 0, cam_a_imgs, cam_b_imgs)
    IN  [train |-> train, query |-> test, gallery |-> test,
         num_train_pids |-> num_train_pids,
         num_query_pids |-> num_pids - num_train_pids,
         num_gallery_pids |-> num_pids - num_train_pids]

\* The assertion "train and test overlap" of one pass.
overlap(order, num_pids) ==
    Range(train_idxs_of(order, num_pids \div 2)) \cap Range(test_idxs_of(order, num_pids \div 2)) # {}

\* The state of the random source before pass t (0-based), starting from r.
RECURSIVE rng_at(_, _)
rng_at(r, t) == IF t = 0 THEN r ELSE rk_next(rng_at(r, t - 1))

\* The permutation drawn in pass t.
order_at(num_pids, r, t) == shuffle(arange(num_pids), rng_at(r, t))

\* for _ in range(10): ... splits.append(split)
build_splits(na, nb, r) ==
    [t \in 1..NumSplits |->
        make_split(order_at(na, r, t - 1), na, sorted_glob("cam_a", na), sorted_glob("cam_b", nb))]

\* ------------------------------------------------------------- JSON helpers
\* A sequence of records as JSON: every tuple becomes a list.
json_records(recs) == [i \in DOMAIN recs |-> PyList(recs[i].items)]

json_split(s) ==
    [k \in DOMAIN s |-> IF k \in {"train", "query", "gallery"} THEN json_records(s[k]) ELSE s[k]]

\* write_json(splits, path): the document stored at path.
write_json(v) == [exists |-> TRUE, doc |-> [i \in DOMAIN v |-> json_split(v[i])]]

\* read_json(path): the stored document as Python lists and dicts.
read_json(f) == f.doc

\* mkdir_if_missing(dir): the directory exists afterwards.
mkdir_if_missing(e) == TRUE

\* ------------------------------------------------------- persisted documents
\* A split file written by an earlier run over n identities from random state r.
stored_splits(n, r) == write_json(build_splits(n, n, r))

\* The same document with key k removed from its first split.
without_key(f, k) ==
    [f EXCEPT !.doc[1] = [j \in (DOMAIN f.doc[1]) \ {k} |-> f.doc[1][j]]]

\* The same document with the first record of its first split's list k cut to
\* two items, or extended to four.
short_record(f, k) ==
    [f EXCEPT !.doc[1][k][1] = PyList(SubSeq(f.doc[1][k][1].items, 1, 2))]
long_record(f, k) ==
    [f EXCEPT !.doc[1][k][1] = PyList(f.doc[1][k][1].items \o <<0>>)]

\* The same document cut to its first two splits.
two_splits(f) == [f EXCEPT !.doc = SubSeq(f.doc, 1, 2)]

\* Split files as earlier runs of this code left them.
GenuineFiles == {stored_splits(2, 1), stored_splits(3, 4)}

\* Split files that were cut or edited after they were written.
AlteredFiles ==
    {two_splits(stored_splits(2, 3))}
    \cup {without_key(stored_splits(2, 1), k) : k \in {"train", "gallery", "num_query_pids"}}
    \cup {short_record(stored_splits(2, 1), "query"), long_record(stored_splits(2, 1), "train")}

\* The split files a dataset root may hold before the first construction.
StoredFiles == {NoFile} \cup GenuineFiles \cup AlteredFiles

\* --------------------------------------------------------------- operations
\* splits[split_id] with Python's index rules: a negative index counts from the end.
py_index_ok(len, i) == i >= 0 - len /\ i < len
py_index(len, i) == IF i >= 0 THEN i + 1 ELSE len + i + 1

\* The check of split_id against the number of splits (line 48).
exceeds_range(sid, len) == sid >= len

\* An assertion that only asks for cam_a not to be the longer list.
lengths_ordered(na, nb) == na <= nb

\* A write that leaves an existing file alone.
save_if_absent(f, spl) == IF f.exists THEN f ELSE write_json(spl)

\* An existence test that always asks for new splits.
always_create(f) == TRUE

\* assert len(cam_a_imgs) == len(cam_b_imgs)
lengths_match(na, nb) == na = nb

\* write_json(splits, self.split_path): the file after the call, whatever it held.
save_splits(f, spl) == write_json(spl)

\* The existence test that guards split creation (line 122).
must_create(f) == ~ f.exists

\* The directory check with camera B looked at before camera A.
first_missing_b_first(root, cam_a, cam_b) ==
    IF ~ root THEN "dataset_dir"
    ELSE IF ~ cam_b THEN "cam_b_path"
    ELSE IF ~ cam_a THEN "cam_a_path"
    ELSE "none"

\* The first directory _check_before_run finds missing, or "none".
first_missing(root, cam_a, cam_b) ==
    IF ~ root THEN "dataset_dir"
    ELSE IF ~ cam_a THEN "cam_a_path"
    ELSE IF ~ cam_b THEN "cam_b_path"
    ELSE "none"

\* [tuple(item) for item in seq]
tuples_of(seq) == [i \in DOMAIN seq |-> tuple(seq[i])]

\* VIPeR(...) is called: lines 36-41 compute the paths.
Start(p) ==
    /\ pc[p] \in {"idle", "done", "failed"}
    /\ runs[p] > 0
    /\ runs' = [runs EXCEPT ![p] = @ - 1]
    /\ pc' = [pc EXCEPT ![p] = "download"]
    /\ split_id' = [split_id EXCEPT ![p] = 0]
    /\ splits' = [splits EXCEPT ![p] = <<>>]
    /\ error' = [error EXCEPT ![p] = NoError]
    /\ obj' = [obj EXCEPT ![p] = NoObj]
    /\ downloaded' = [downloaded EXCEPT ![p] = FALSE]
    /\ UNCHANGED <<fsvars, split_file, rng>>

Fail(p, e) ==
    /\ pc' = [pc EXCEPT ![p] = "failed"]
    /\ error' = [error EXCEPT ![p] = e]

\* _download_data, with the dataset directory already there: nothing to do.
DownloadSkip(p) ==
    /\ pc[p] = "download"
    /\ exists_dataset_dir
    /\ pc' = [pc EXCEPT ![p] = "check"]
    /\ UNCHANGED <<fsvars, split_file, split_id, rng, splits, error, obj, downloaded, runs>>

\* _download_data: the directory is created, then the archive is fetched and
\* unpacked. The fetch may fail; the archive's content is whatever the server sends.
DownloadFetch(p) ==
    /\ pc[p] = "download"
    /\ ~ exists_dataset_dir
    /\ downloaded' = [downloaded EXCEPT ![p] = TRUE]
    /\ exists_dataset_dir' = mkdir_if_missing(exists_dataset_dir)
    /\ \/ /\ Fail(p, Raise("IOError", "dataset_url"))
          /\ UNCHANGED <<exists_cam_a, exists_cam_b, n_cam_a, n_cam_b>>
       \/ /\ \E a \in BOOLEAN, b \in BOOLEAN, na \in 0..MaxPids, nb \in 0..MaxPids :
                /\ (~ a => na = 0) /\ (~ b => nb = 0)
                /\ exists_cam_a' = a /\ exists_cam_b' = b
                /\ n_cam_a' = na /\ n_cam_b' = nb
          /\ pc' = [pc EXCEPT ![p] = "check"]
          /\ UNCHANGED error
    /\ UNCHANGED <<split_file, split_id, rng, splits, obj, runs>>

\* _check_before_run
CheckBeforeRun(p) ==
    /\ pc[p] = "check"
    /\ LET missing == first_missing(exists_dataset_dir, exists_cam_a, exists_cam_b)
       IN  IF missing # "none"
           THEN Fail(p, Raise("RuntimeError", missing))
           ELSE pc' = [pc EXCEPT ![p] = "prepare"] /\ UNCHANGED error
    /\ UNCHANGED <<fsvars, split_file, split_id, rng, splits, obj, downloaded, runs>>

\* _prepare_split, line 122: is there a split file?
PrepareSplit(p) ==
    /\ pc[p] = "prepare"
    /\ pc' = [pc EXCEPT ![p] = IF must_create(split_file) THEN "build" ELSE "read"]
    /\ UNCHANGED <<fsvars, split_file, split_id, rng, splits, error, obj, downloaded, runs>>

\* _prepare_split, lines 125-159: list the images and build the ten splits,
\* from whatever state r the random source is in.
BuildSplits(p) ==
    /\ pc[p] = "build"
    /\ \E r \in 0..MaxSeed :
          /\ rng' = [rng EXCEPT ![p] = r]
          /\ IF ~ lengths_match(n_cam_a, n_cam_b)
             THEN /\ Fail(p, Raise("AssertionError", "len(cam_a_imgs) == len(cam_b_imgs)"))
                  /\ UNCHANGED splits
             ELSE IF \E t \in 0..(NumSplits - 1) : overlap(order_at(n_cam_a, r, t), n_cam_a)
             THEN /\ Fail(p, Raise("AssertionError", "Error: train and test overlap"))
                  /\ UNCHANGED splits
             ELSE /\ splits' = [splits EXCEPT ![p] = build_splits(n_cam_a, n_cam_b, r)]
                  /\ pc' = [pc EXCEPT ![p] = "write"]
                  /\ UNCHANGED error
    /\ UNCHANGED <<fsvars, split_file, split_id, obj, downloaded, runs>>

\* _prepare_split, line 162: write_json(splits, self.split_path)
WriteSplits(p) ==
    /\ pc[p] = "write"
    /\ split_file' = save_splits(split_file, splits[p])
    /\ pc' = [pc EXCEPT ![p] = "read"]
    /\ UNCHANGED <<fsvars, split_id, rng, splits, error, obj, downloaded, runs>>

\* __init__, line 47: splits = read_json(self.split_path)
ReadSplits(p) ==
    /\ pc[p] = "read"
    /\ IF split_file.exists
       THEN /\ splits' = [splits EXCEPT ![p] = read_json(split_file)]
            /\ pc' = [pc EXCEPT ![p] = "select"]
            /\ UNCHANGED error
       ELSE /\ Fail(p, Raise("IOError", "split_path"))
            /\ UNCHANGED splits
    /\ UNCHANGED <<fsvars, split_file, split_id, rng, obj, downloaded, runs>>

\* The outcome of lines 48-90 for split_id sid: the exception raised, or the
\* fields set on self.
select_split(spl, sid) ==
    IF exceeds_range(sid, Len(spl))
    THEN [error |-> Raise("ValueError", "split_id exceeds range"), obj |-> NoObj]
    ELSE IF ~ py_index_ok(Len(spl), sid)
    THEN [error |-> Raise("IndexError", "list index out of range"), obj |-> NoObj]
    ELSE LET split == spl[py_index(Len(spl), sid)]
             absent == Keys \ DOMAIN split
         IN  IF absent # {}
             THEN [error |-> Raise("KeyError",
                                   IF "train" \in absent THEN "train"
                                   ELSE IF "query" \in absent THEN "query"
                                   ELSE IF "gallery" \in absent THEN "gallery"
                                   ELSE IF "num_train_pids" \in absent THEN "num_train_pids"
                                   ELSE IF "num_query_pids" \in absent THEN "num_query_pids"
                                   ELSE "num_gallery_pids"),
                   obj |-> NoObj]
             ELSE [error |-> NoError,
                   obj |-> [set |-> TRUE,
                            train |-> tuples_of(split["train"]),
                            query |-> tuples_of(split["query"]),
                            gallery |-> tuples_of(split["gallery"]),
                            num_train_pids |-> split["num_train_pids"],
                            num_query_pids |-> split["num_query_pids"],
                            num_gallery_pids |-> split["num_gallery_pids"]]]

\* __init__, lines 48-90, for the split_id the caller passed.
SelectSplit(p) ==
    /\ pc[p] = "select"
    /\ \E sid \in SplitIds :
          LET out == select_split(splits[p], sid)
          IN  /\ split_id' = [split_id EXCEPT ![p] = sid]
              /\ error' = [error EXCEPT ![p] = out.error]
              /\ obj' = [obj EXCEPT ![p] = out.obj]
              /\ pc' = [pc EXCEPT ![p] = IF out.error = NoError THEN "done" ELSE "failed"]
    /\ UNCHANGED <<fsvars, split_file, rng, splits, downloaded, runs>>

Step(p) ==
    \/ Start(p)
    \/ DownloadSkip(p)
    \/ DownloadFetch(p)
    \/ CheckBeforeRun(p)
    \/ PrepareSplit(p)
    \/ BuildSplits(p)
    \/ WriteSplits(p)
    \/ ReadSplits(p)
    \/ SelectSplit(p)

Next == \E p \in Procs : Step(p)

\* The states a dataset root can be in before a construction.
FsInit ==
    /\ exists_dataset_dir \in BOOLEAN
    /\ exists_cam_a \in BOOLEAN
    /\ exists_cam_b \in BOOLEAN
    /\ n_cam_a \in 0..MaxPids
    /\ n_cam_b \in 0..MaxPids
    /\ split_file \in StoredFiles
    /\ exists_cam_a => exists_dataset_dir
    /\ exists_cam_b => exists_dataset_dir
    /\ split_file.exists => exists_dataset_dir
    /\ n_cam_a > 0 => exists_cam_a
    /\ n_cam_b > 0 => exists_cam_b

ProcInit ==
    /\ pc = [p \in Procs |-> "idle"]
    /\ split_id = [p \in Procs |-> 0]
    /\ rng = [p \in Procs |-> 0]
    /\ splits = [p \in Procs |-> <<>>]
    /\ error = [p \in Procs |-> NoError]
    /\ obj = [p \in Procs |-> NoObj]
    /\ downloaded = [p \in Procs |-> FALSE]

\* One process constructs the dataset MaxRuns times in a row.
Init ==
    /\ FsInit
    /\ ProcInit
    /\ runs = [p \in Procs |-> IF p = 1 THEN MaxRuns ELSE 0]

Spec == Init /\ [][Next]_vars

\* Two processes construct the dataset once each, on a complete dataset root
\* of at most MaxRacePids identities that holds no split file yet. Nothing is
\* downloaded there.
InitRace ==
    /\ FsInit
    /\ exists_cam_a /\ exists_cam_b
    /\ n_cam_a <= MaxRacePids /\ n_cam_b <= MaxRacePids
    /\ split_file = NoFile
    /\ ProcInit
    /\ runs = [p \in Procs |-> 1]

StepRace(p) ==
    \/ Start(p)
    \/ DownloadSkip(p)
    \/ CheckBeforeRun(p)
    \/ PrepareSplit(p)
    \/ BuildSplits(p)
    \/ WriteSplits(p)
    \/ ReadSplits(p)
    \/ SelectSplit(p)

NextRace == \E p \in Procs : StepRace(p)

SpecRace == InitRace /\ [][NextRace]_vars

\* ------------------------------------------------------------------ claims
\* The process has just built a SplitSet over n_cam_a identities (splits[p]).
Built(p) == pc[p] = "write"

\* Dataset assembly (lines 48-90) has run for the process.
Assembled(p) ==
    \/ pc[p] = "done"
    \/ pc[p] = "failed" /\ error[p].kind \in {"ValueError", "IndexError", "KeyError"}

\* The raw identity index a record's path stands for, and those of a record list.
raw_idx(rec) == rec.items[1][2]
IdxSet(recs) == {raw_idx(recs[i]) : i \in DOMAIN recs}

LengthError == Raise("AssertionError", "len(cam_a_imgs) == len(cam_b_imgs)")
RecordKeys == {"train", "query", "gallery"}

\* What __init__ sets on self for a split read from the file.
Exposed(split) ==
    [set |-> TRUE,
     train |-> [i \in DOMAIN split["train"] |-> PyTuple(split["train"][i].items)],
     query |-> [i \in DOMAIN split["query"] |-> PyTuple(split["query"][i].items)],
     gallery |-> [i \in DOMAIN split["gallery"] |-> PyTuple(split["gallery"][i].items)],
     num_train_pids |-> split["num_train_pids"],
     num_query_pids |-> split["num_query_pids"],
     num_gallery_pids |-> split["num_gallery_pids"]]

\* C1: once a split file exists, no construction rebuilds the splits or writes
\* the file again, and every construction that reads it gets the file's
\* content unchanged.
C1_SplitCacheKept ==
    [][split_file.exists =>
          /\ split_file' = split_file
          /\ \A p \in Procs :
                /\ pc'[p] \notin {"build", "write"}
                /\ (pc[p] = "read" /\ pc'[p] = "select") => splits'[p] = split_file.doc]_vars

\* C1 witness: the second of two constructions is over, and what it loaded is
\* the file the first one built from random state 1, although a build from
\* another random state gives other splits.
C1_Witness ==
    /\ pc[1] = "done" /\ runs[1] = 0
    /\ rng[1] = 1 /\ n_cam_a = 3
    /\ split_file = write_json(build_splits(3, 3, 1))
    /\ splits[1] = split_file.doc
    /\ build_splits(3, 3, 2) # build_splits(3, 3, 1)

\* C2: in every split of a built SplitSet the raw indices of train and of test
\* are disjoint, together they are 0..num_pids-1, every index stands once (two
\* records) in its group, and the overlap assertion never fails.
C2_DisjointCover ==
    \A p \in Procs :
        /\ error[p].detail # "Error: train and test overlap"
        /\ Built(p) =>
              \A t \in DOMAIN splits[p] :
                  LET tr == IdxSet(splits[p][t].train)
                      te == IdxSet(splits[p][t].query)
                  IN  /\ tr \cap te = {}
                      /\ tr \cup te = 0..(n_cam_a - 1)
                      /\ Len(splits[p][t].train) = 2 * Cardinality(tr)
                      /\ Len(splits[p][t].query) = 2 * Cardinality(te)

\* C2 witness: a SplitSet over five identities whose first split does not
\* train on the first two.
C2_Witness ==
    /\ Built(1) /\ n_cam_a = 5
    /\ IdxSet(splits[1][1].train) # {0, 1}
    /\ Cardinality(IdxSet(splits[1][1].query)) = 3

\* C3, as claimed: assembly fails with the out-of-range error for every
\* split_id outside [0, len), negative ones included, and exposes nothing
\* then; inside the range it exposes exactly SplitSet[split_id].
C3_OutOfRangeFails ==
    \A p \in Procs :
        Assembled(p) =>
            LET len == Len(splits[p])
            IN  /\ split_id[p] \notin 0..(len - 1) =>
                      /\ pc[p] = "failed"
                      /\ error[p].kind = "ValueError"
                      /\ ~ obj[p].set
                /\ (split_id[p] \in 0..(len - 1) /\ Keys \subseteq DOMAIN splits[p][split_id[p] + 1]) =>
                      /\ pc[p] = "done"
                      /\ obj[p] = Exposed(splits[p][split_id[p] + 1])

PastCheck == {"prepare", "build", "write", "read", "select", "done"}

\* C4, amended: no construction gets past the pre-flight check unless the root
\* and both camera directories exist; the error names camera A when the root
\* exists and camera A does not, camera B when root and camera A exist and
\* camera B does not; it never names the root, which the download step has
\* created by then; and with such an error nothing is built, read, exposed or
\* written.
C4_PreflightOrder ==
    /\ [](\A p \in Procs :
            /\ error[p] # Raise("RuntimeError", "dataset_dir")
            /\ error[p] = Raise("RuntimeError", "cam_a_path") =>
                  exists_dataset_dir /\ ~ exists_cam_a
            /\ error[p] = Raise("RuntimeError", "cam_b_path") =>
                  exists_dataset_dir /\ exists_cam_a /\ ~ exists_cam_b
            /\ pc[p] \in PastCheck =>
                  exists_dataset_dir /\ exists_cam_a /\ exists_cam_b
            /\ error[p].kind = "RuntimeError" =>
                  splits[p] = <<>> /\ ~ obj[p].set)
    /\ [][\A p \in Procs :
            (pc[p] \in {"download", "check"} /\ pc'[p] # pc[p]) =>
                split_file' = split_file]_vars

\* C4 witness: the root was missing when the construction began, the archive
\* brought camera A but not camera B, and the error names camera B.
C4_Witness ==
    /\ downloaded[1]
    /\ pc[1] = "failed"
    /\ error[1] = Raise("RuntimeError", "cam_b_path")
    /\ exists_cam_a /\ ~ exists_cam_b

\* C4, as claimed: the first missing path is reported in the order root,
\* camera A, camera B, and a construction that began with the root missing
\* ends with the error that names the root.
C4_RootMissingNamesRoot ==
    \A p \in Procs :
        /\ error[p] = Raise("RuntimeError", "cam_b_path") => exists_cam_a /\ ~ exists_cam_b
        /\ (downloaded[p] /\ pc[p] \in {"failed", "done"}) =>
              error[p] = Raise("RuntimeError", "dataset_dir")

\* C5, amended: when the selected split lacks one of the six keys the
\* construction fails with a KeyError and exposes nothing; otherwise it
\* succeeds and every record of the split is exposed as a tuple of the very
\* items the file holds, whatever their number.
C5_ShapeOnLoad ==
    \A p \in Procs :
        (Assembled(p) /\ split_id[p] >= 0 - Len(splits[p]) /\ split_id[p] < Len(splits[p])) =>
            LET len == Len(splits[p])
                split == splits[p][IF split_id[p] >= 0 THEN split_id[p] + 1
                                   ELSE len + split_id[p] + 1]
            IN  IF Keys \subseteq DOMAIN split
                THEN /\ pc[p] = "done" /\ obj[p].set
                     /\ \A k \in RecordKeys :
                           /\ Len(obj[p][k]) = Len(split[k])
                           /\ \A i \in DOMAIN split[k] :
                                 /\ obj[p][k][i].tuple
                                 /\ obj[p][k][i].items = split[k][i].items
                ELSE /\ pc[p] = "failed"
                     /\ error[p].kind = "KeyError"
                     /\ error[p].detail \in Keys \ DOMAIN split
                     /\ ~ obj[p].set

\* C5 witness: a construction succeeded and exposes a train record of four items.
C5_Witness ==
    \E p \in Procs :
        /\ pc[p] = "done" /\ obj[p].set
        /\ \E i \in DOMAIN obj[p].train : Len(obj[p].train[i].items) = 4

\* C5, as claimed: a selected split that lacks a key, or holds a record whose
\* arity is not 3, makes the construction fail, and no such record is exposed.
C5_MalformedRejected ==
    \A p \in Procs :
        (Assembled(p) /\ split_id[p] >= 0 - Len(splits[p]) /\ split_id[p] < Len(splits[p])) =>
            LET len == Len(splits[p])
                split == splits[p][IF split_id[p] >= 0 THEN split_id[p] + 1
                                   ELSE len + split_id[p] + 1]
            IN  /\ ~ (Keys \subseteq DOMAIN split) => (pc[p] = "failed" /\ ~ obj[p].set)
                /\ (\E k \in RecordKeys \cap DOMAIN split :
                       \E i \in DOMAIN split[k] : Len(split[k][i].items) # 3) =>
                      (pc[p] = "failed" /\ ~ obj[p].set)
                /\ \A k \in RecordKeys :
                      \A i \in DOMAIN obj[p][k] : Len(obj[p][k][i].items) = 3

\* C6: with camera lists of different lengths no construction gets past split
\* building: none holds built splits or succeeds without a split file, and the
\* one that failed on the length assertion has built nothing, left no split
\* file and exposes no field.
C6_LengthMismatch ==
    \A p \in Procs :
        /\ Built(p) => n_cam_a = n_cam_b
        /\ (n_cam_a # n_cam_b /\ ~ split_file.exists) =>
              pc[p] \notin {"write", "read", "select", "done"}
        /\ error[p] = LengthError =>
              /\ n_cam_a # n_cam_b
              /\ pc[p] = "failed"
              /\ ~ split_file.exists
              /\ splits[p] = <<>>
              /\ ~ obj[p].set

\* C6 witness: five images of camera A, six of camera B, and the length
\* assertion has failed.
C6_Witness ==
    /\ error[1] = LengthError
    /\ n_cam_a = 5 /\ n_cam_b = 6
    /\ ~ split_file.exists

\* C7: in every split of a built SplitSet num_train_pids is num_pids // 2,
\* num_query_pids and num_gallery_pids are num_pids - num_train_pids, the two
\* add up to num_pids, train holds two records per train identity and query
\* two per query identity.
C7_Counts ==
    \A p \in Procs :
        Built(p) =>
            /\ Len(splits[p]) = NumSplits
            /\ \A t \in DOMAIN splits[p] :
                  LET s == splits[p][t]
                  IN  /\ s.num_train_pids = n_cam_a \div 2
                      /\ s.num_query_pids = n_cam_a - s.num_train_pids
                      /\ s.num_gallery_pids = s.num_query_pids
                      /\ s.num_train_pids + s.num_query_pids = n_cam_a
                      /\ Len(s.train) = 2 * s.num_train_pids
                      /\ Len(s.query) = 2 * s.num_query_pids

\* C7 witness: ten identities give five train identities, ten train records
\* and ten test records.
C7_Witness ==
    /\ Built(1) /\ n_cam_a = 10
    /\ splits[1][1].num_train_pids = 5
    /\ Len(splits[1][1].train) = 10
    /\ Len(splits[1][1].query) = 10

\* C8: in every built split the index at position j of the permutation gives
\* two adjacent records of its group, (cam_a_paths[idx], label, 0) and then
\* (cam_b_paths[idx], label, 1), label being its 0-based position within the
\* group; so the labels of train are 0..num_train_pids-1 and those of test
\* 0..num_query_pids-1.
C8_RecordsAndLabels ==
    \A p \in Procs :
        Built(p) =>
            \A t \in DOMAIN splits[p] :
                LET s == splits[p][t]
                    order == order_at(n_cam_a, rng[p], t - 1)
                    nt == n_cam_a \div 2
                IN  /\ Range(order) = 0..(n_cam_a - 1)
                    /\ Len(order) = n_cam_a
                    /\ Len(s.train) = 2 * nt
                    /\ Len(s.query) = 2 * (n_cam_a - nt)
                    /\ \A j \in 1..n_cam_a :
                          LET group == IF j <= nt THEN s.train ELSE s.query
                              label == IF j <= nt THEN j - 1 ELSE j - 1 - nt
                          IN  /\ group[2 * label + 1] = PyTuple(<<<<"cam_a", order[j]>>, label, 0>>)
                              /\ group[2 * label + 2] = PyTuple(<<<<"cam_b", order[j]>>, label, 1>>)
                    /\ {s.train[i].items[2] : i \in DOMAIN s.train} = 0..(nt - 1)
                    /\ {s.query[i].items[2] : i \in DOMAIN s.query} = 0..(n_cam_a - nt - 1)

\* C8 witness: four identities, and a split whose label 0 of train is not raw
\* index 0.
C8_Witness ==
    /\ Built(1) /\ n_cam_a = 4
    /\ \E t \in DOMAIN splits[1] :
          /\ raw_idx(splits[1][t].train[1]) # 0
          /\ splits[1][t].train[1].items[2] = 0

\* C9: in every built split query and gallery are the same sequence, and after
\* a successful construction from a split file that nobody edited the
\* dataset's query and gallery are the same sequence too.
C9_QueryIsGallery ==
    \A p \in Procs :
        /\ Built(p) => \A t \in DOMAIN splits[p] : splits[p][t].query = splits[p][t].gallery
        /\ (pc[p] = "done" /\ split_file \notin AlteredFiles) => obj[p].query = obj[p].gallery

\* C9 witness: the first construction built the splits over three identities
\* from random state 2, wrote them, read them back and exposes four query
\* records.
C9_Witness ==
    /\ pc[1] = "done" /\ runs[1] = MaxRuns - 1
    /\ rng[1] = 2 /\ n_cam_a = 3
    /\ Len(obj[1].query) = 4
    /\ obj[1].gallery = obj[1].query

\* C10: the write is not guarded by the existence check: whenever a process
\* that has built writes, the file becomes its own build, whatever the file
\* held (last writer wins), and any process may be anywhere in its own
\* load-or-create sequence at that moment.
C10_LastWriterWins ==
    [][\A p \in Procs :
          (pc[p] = "write" /\ pc'[p] = "read") => split_file' = write_json(splits[p])]_vars

\* C10 witness: both processes built, process 1 wrote last, process 2 had read
\* its own build before, and for the same split_id the two expose different
\* splits.
C10_Witness ==
    /\ pc[1] = "done" /\ pc[2] = "done"
    /\ split_id[1] = split_id[2]
    /\ obj[1] # obj[2]
    /\ splits[1] = split_file.doc
    /\ splits[2] # split_file.doc
    /\ splits[2] = write_json(build_splits(n_cam_a, n_cam_b, rng[2])).doc

====
